---- MODULE Spec2Model ----
(***************************************************************************)
(* Model of openmmml/models/nequippotential.py: the TorchScript neighbor   *)
(* list _simple_nl and the NequIPForce adapter built by                    *)
(* NequIPPotentialImpl.addForces.                                          *)
(*                                                                         *)
(* Lengths are integers on a grid, so that norms, cutoffs and the          *)
(* round-half-to-even of torch.round are computed exactly.  Atom indices   *)
(* keep the source's 0-based values; TLA+ sequences are 1-based, so        *)
(* positions[a] of the source is positions[a + 1] here.                    *)
(***************************************************************************)
EXTENDS Integers, Sequences, FiniteSets, TLC

VARIABLES
    nl_in,    \* arguments of one direct call of _simple_nl
    nl_out,   \* what that call returned (or that it raised)
    ctor,     \* arguments NequIPPotentialImpl.addForces built the adapter from
    self,     \* the NequIPForce module's attributes
    call,     \* arguments of the last NequIPForce.forward call
    rec,      \* input_dict assembled by that call
    ret,      \* what that call returned
    first     \* history: arguments, input_dict and result of the first forward call

vars == <<nl_in, nl_out, ctor, self, call, rec, ret, first>>

----------------------------------------------------------------------------
(* Bounds of the model *)

\* largest number of atoms handed to a direct call of _simple_nl
MaxAtoms == 2
\* atoms sit at grid points <<x, y, z>> with x, y, z >= 0 and x + y + z <= MaxCoord
MaxCoord == 2
\* cutoffs of direct calls of _simple_nl range over 0..MaxCutoff
MaxCutoff == 1
\* edge lengths of the periodic cells tried
CellEdges == {2, 3}

----------------------------------------------------------------------------
(* Values *)

\* Optional[...] of the source: None, or a value
NoneOpt == [isNone |-> TRUE, val |-> <<>>]
Some(v) == [isNone |-> FALSE, val |-> v]

Points == {p \in (0..MaxCoord) \X (0..MaxCoord) \X (0..MaxCoord) :
             p[1] + p[2] + p[3] <= MaxCoord}

DiagCell(a, b, c) == << <<a, 0, 0>>, <<0, b, 0>>, <<0, 0, c>> >>

\* torch.eye(3)
Eye3 == DiagCell(1, 1, 1)

----------------------------------------------------------------------------
(* torch primitives used by _simple_nl *)

\* torch.range(start, end): the inclusive range start..end; ATen's range_out
\* raises "upper bound and larger bound inconsistent with step sign" when
\* end < start (step 1).
TorchRange(start, end) ==
    IF end < start
    THEN [ok |-> FALSE, val |-> <<>>]
    ELSE [ok |-> TRUE, val |-> [k \in 1..(end - start + 1) |-> start + k - 1]]

\* torch.repeat_interleave(t, n): every element n times in a row
RepeatInterleave(t, n) ==
    [k \in 1..(Len(t) * n) |-> t[((k - 1) \div n) + 1]]

\* t.repeat(n): the whole tensor n times over
Repeat(t, n) ==
    [k \in 1..(Len(t) * n) |-> t[((k - 1) % Len(t)) + 1]]

\* x[keep] for a boolean index: the rows of x whose flag is set
RECURSIVE BoolIndex(_, _)
BoolIndex(x, keep) ==
    IF x = <<>> THEN <<>>
    ELSE (IF Head(keep) THEN <<Head(x)>> ELSE <<>>)
             \o BoolIndex(Tail(x), Tail(keep))

\* a plausible slip: round half up, floor(d/len + 1/2)
TorchRoundHalfUp(d, len) == (2 * d + len) \div (2 * len)

\* torch.round(d / len) for len > 0: nearest integer, ties to the even one
TorchRound(d, len) ==
    LET q == d \div len
        r == d % len
    IN  IF 2 * r < len THEN q
        ELSE IF 2 * r > len THEN q + 1
        ELSE IF q % 2 = 0 THEN q ELSE q + 1

\* s . cell: the lattice translation of an integer shift
ShiftVec(s, cell) ==
    [c \in 1..3 |-> s[1] * cell[1][c] + s[2] * cell[2][c] + s[3] * cell[3][c]]

\* square of torch.linalg.norm of one row
Norm2(v) == v[1] * v[1] + v[2] * v[2] + v[3] * v[3]

\* a plausible slip: a tolerance is added to the squared cutoff
BeyondCutoffLoose(delta, cutoff) == Norm2(delta) > cutoff * cutoff + 1

\* distances > cutoff, for a cutoff >= 0 (both sides squared)
BeyondCutoff(delta, cutoff) == Norm2(delta) > cutoff * cutoff

----------------------------------------------------------------------------
(* _simple_nl *)

\* a plausible slip: the self pairs are kept whatever the flag says
PairMaskKeepAll(e, self_interaction) == TRUE

\* lines 57-59: a pair (i, j) survives unless self_interaction is off and i = j
PairMask(e, self_interaction) == self_interaction \/ e[1] # e[2]

\* lines 64-77: the shift of one raw displacement
Shift(fd, cell, pbc) ==
    IF pbc[1]
    THEN << TorchRound(fd[1], cell[1][1]),
            TorchRound(fd[2], cell[2][2]),
            TorchRound(fd[3], cell[3][3]) >>
    ELSE <<0, 0, 0>>

\* lines 62-72: the displacement the distance is taken of
Wrapped(fd, s, cell, pbc) ==
    IF pbc[1]
    THEN << fd[1] - s[1] * cell[1][1],
            fd[2] - s[2] * cell[2][2],
            fd[3] - s[3] * cell[3][3] >>
    ELSE fd

NlError == [status |-> "RuntimeError", neighbors |-> <<>>, shifts |-> <<>>]

SimpleNl(positions, cell, pbc, cutoff, self_interaction) ==
    LET num_atoms == Len(positions)
        rng == TorchRange(0, num_atoms - 1)
    IN  IF ~rng.ok THEN NlError
        ELSE
        LET i == RepeatInterleave(rng.val, num_atoms)
            j == Repeat(rng.val, num_atoms)
            all == [k \in 1..Len(i) |-> <<i[k], j[k]>>]
            neighbors == BoolIndex(all,
                            [k \in 1..Len(all) |-> PairMask(all[k], self_interaction)])
            full_deltas == [k \in 1..Len(neighbors) |->
                               LET a == positions[neighbors[k][1] + 1]
                                   b == positions[neighbors[k][2] + 1]
                               IN  <<a[1] - b[1], a[2] - b[2], a[3] - b[3]>>]
            shifts == [k \in 1..Len(neighbors) |-> Shift(full_deltas[k], cell, pbc)]
            deltas == [k \in 1..Len(neighbors) |->
                               Wrapped(full_deltas[k], shifts[k], cell, pbc)]
            keep == [k \in 1..Len(neighbors) |-> ~BeyondCutoff(deltas[k], cutoff)]
        IN  [status |-> "ok",
             neighbors |-> BoolIndex(neighbors, keep),
             shifts |-> BoolIndex(shifts, keep)]

----------------------------------------------------------------------------
(* Direct calls of _simple_nl: the arguments are drawn, then the call runs *)

NlPending == [status |-> "pending", neighbors |-> <<>>, shifts |-> <<>>]

NlInputs ==
    [positions : UNION {[1..n -> Points] : n \in 0..MaxAtoms},
     cell : {DiagCell(a, b, c) : a \in CellEdges, b \in CellEdges, c \in CellEdges},
     pbc : {<<TRUE, TRUE, TRUE>>, <<FALSE, FALSE, FALSE>>},
     cutoff : 0..MaxCutoff,
     self_interaction : BOOLEAN]

Idle == [status |-> "none"]

InitNL ==
    /\ nl_in \in NlInputs
    /\ nl_out = NlPending
    /\ ctor = Idle
    /\ self = Idle
    /\ call = Idle
    /\ rec = Idle
    /\ ret = Idle
    /\ first = Idle

CallSimpleNl ==
    /\ nl_out.status = "pending"
    /\ nl_out' = SimpleNl(nl_in.positions, nl_in.cell, nl_in.pbc, nl_in.cutoff,
                          nl_in.self_interaction)
    /\ UNCHANGED <<nl_in, ctor, self, call, rec, ret, first>>

NextNL == CallSimpleNl

SpecNL == InitNL /\ [][NextNL]_vars

----------------------------------------------------------------------------
(* NequIPPotentialImpl.addForces and NequIPForce.__init__ *)

\* topology.atoms(): the element symbol of every atom of the host system
Topology == <<"H", "O", "H">>

\* atom.element.atomic_number
AtomicNumber(sym) == IF sym = "H" THEN 1 ELSE 8

\* str(metadata["type_names"]).split(" ")
TypeNames == <<"H", "O">>

\* type_name_to_type_index[sym]: the 0-based place of sym in type_names
TypeIndex(sym) == (CHOOSE k \in 1..Len(TypeNames) : TypeNames[k] = sym) - 1

\* the atom subsets tried: sequences of distinct 0-based topology indices
Subsets ==
    {s \in UNION {[1..n -> 0..(Len(Topology) - 1)] : n \in 1..Len(Topology)} :
        \A a, b \in 1..Len(s) : a # b => s[a] # s[b]}

\* lines 143-146: includedAtoms
IncludedAtoms(atoms) ==
    IF atoms.isNone THEN Topology
    ELSE [k \in 1..Len(atoms.val) |-> Topology[atoms.val[k] + 1]]

\* the explicit atom_types tried for a subset: one type per included atom, or
\* one type per atom of the topology
TypeOverrides(atoms) ==
    { [k \in 1..Len(IncludedAtoms(atoms)) |-> TypeIndex(IncludedAtoms(atoms)[k])],
      [k \in 1..Len(Topology) |-> TypeIndex(Topology[k])] }

\* (distance_to_nm, energy_to_kJ_per_mol): distance_to_nm is 1/nm_to_distance,
\* kept as its reciprocal so that the lengths stay integers
UnitSystems == { [nm_to_distance |-> 1, energy_to_kJ |-> 1],
                 [nm_to_distance |-> 2, energy_to_kJ |-> 3] }

\* float(metadata["r_max"]), in model length units (up to one grid step of
\* the coarsest unit system beyond the cutoffs of the direct calls)
Cutoffs == 1..(MaxCutoff + 1)

CtorArgs ==
    UNION { { [status |-> "built", atoms |-> at, atom_types |-> ty, periodic |-> pe,
               units |-> un, r_max |-> rm] :
                 ty \in {NoneOpt} \cup {Some(t) : t \in TypeOverrides(at)},
                 pe \in BOOLEAN, un \in UnitSystems, rm \in Cutoffs } :
            at \in {NoneOpt} \cup {Some(s) : s \in Subsets} }

\* lines 189-200: nequip_types
NequipTypes(atom_types, includedAtoms) ==
    IF ~atom_types.isNone THEN atom_types.val
    ELSE [k \in 1..Len(includedAtoms) |-> TypeIndex(includedAtoms[k])]

\* lines 208-211: self.pbc
PbcFlags(periodic) ==
    IF periodic THEN <<TRUE, TRUE, TRUE>> ELSE <<FALSE, FALSE, FALSE>>

\* NequIPForce.__init__ as addForces calls it (line 271)
Construct(c) ==
    LET includedAtoms == IncludedAtoms(c.atoms)
    IN  [status |-> "built",
         nm_to_distance |-> c.units.nm_to_distance,
         energy_to_kJ |-> c.units.energy_to_kJ,
         r_max |-> c.r_max,
         atomic_numbers |-> [k \in 1..Len(includedAtoms) |->
                                AtomicNumber(includedAtoms[k])],
         N |-> Len(includedAtoms),
         atom_types |-> NequipTypes(c.atom_types, includedAtoms),
         pbc |-> PbcFlags(c.periodic),
         indices |-> c.atoms]

----------------------------------------------------------------------------
(* NequIPForce.forward *)

Scale(v, f) == <<v[1] * f, v[2] * f, v[3] * f>>

\* a plausible slip (the source asks "should atoms be sorted?"): the subset
\* is taken in ascending index order
SelectPositionsSorted(positions, indices) ==
    IF indices.isNone THEN positions
    ELSE LET srt == SortSeq(indices.val, LAMBDA a, b : a < b)
         IN  [k \in 1..Len(srt) |-> positions[srt[k] + 1]]

\* lines 223-224: positions[self.indices]
SelectPositions(positions, indices) ==
    IF indices.isNone THEN positions
    ELSE [k \in 1..Len(indices.val) |-> positions[indices.val[k] + 1]]

\* a plausible slip: the identity cell is converted like a host cell
ForwardCellScaledEye(boxvectors, nm_to_distance) ==
    IF ~boxvectors.isNone
    THEN [r \in 1..3 |-> Scale(boxvectors.val[r], nm_to_distance)]
    ELSE [r \in 1..3 |-> Scale(Eye3[r], nm_to_distance)]

\* lines 230-234: input_dict["cell"]
ForwardCell(boxvectors, nm_to_distance) ==
    IF ~boxvectors.isNone
    THEN [r \in 1..3 |-> Scale(boxvectors.val[r], nm_to_distance)]
    ELSE Eye3

RECURSIVE SumVec(_)
SumVec(vs) ==
    IF vs = <<>> THEN <<0, 0, 0>>
    ELSE LET t == SumVec(Tail(vs))
         IN  <<Head(vs)[1] + t[1], Head(vs)[2] + t[2], Head(vs)[3] + t[3]>>

\* one edge's vector as the model sees it: pos[j] - pos[i] + shift . cell
EdgeVec(input_dict, e) ==
    LET a == input_dict.pos[input_dict.edge_index[e][1] + 1]
        b == input_dict.pos[input_dict.edge_index[e][2] + 1]
        t == ShiftVec(input_dict.edge_cell_shift[e], input_dict.cell)
    IN  <<b[1] - a[1] + t[1], b[2] - a[2] + t[2], b[3] - a[3] + t[3]>>

\* the externally supplied model: an output record with a total energy and
\* one force row per row of pos.  Here a pair potential over the edges: the
\* force on atom k is the sum of the vectors of the edges leaving k.
ExternalModel(input_dict) ==
    [total_energy |-> Len(input_dict.edge_index),
     forces |-> [k \in 1..Len(input_dict.pos) |->
                    SumVec([e \in 1..Len(input_dict.edge_index) |->
                               IF input_dict.edge_index[e][1] = k - 1
                               THEN EdgeVec(input_dict, e) ELSE <<0, 0, 0>>])]]

\* forward(positions, boxvectors) on the module s: the input_dict it assembles
\* and the (energy, forces) it returns
ForwardResult(s, positions, boxvectors) ==
    LET sel == SelectPositions(positions, s.indices)
        pos == [k \in 1..Len(sel) |-> Scale(sel[k], s.nm_to_distance)]
        cell == ForwardCell(boxvectors, s.nm_to_distance)
        nl == SimpleNl(pos, cell, s.pbc, s.r_max, FALSE)
    IN  IF nl.status # "ok"
        THEN [rec |-> [status |-> "error"], ret |-> [status |-> "error"]]
        ELSE
        LET input_dict == [status |-> "ok",
                           cell |-> cell,
                           pbc |-> s.pbc,
                           atomic_numbers |-> s.atomic_numbers,
                           atom_types |-> s.atom_types,
                           pos |-> pos,
                           edge_index |-> nl.neighbors,
                           edge_cell_shift |-> nl.shifts]
            out == ExternalModel(input_dict)
        IN  [rec |-> input_dict,
             ret |-> [status |-> "ok",
                      energy |-> out.total_energy * s.energy_to_kJ,
                      \* dividing by distance_to_nm multiplies by nm_to_distance
                      forces |-> [k \in 1..Len(out.forces) |->
                                     Scale(out.forces[k],
                                           s.energy_to_kJ * s.nm_to_distance)]]]

----------------------------------------------------------------------------
(* The host: positions of all topology atoms and the box it hands to forward *)

\* host atoms move along the x axis, over as many grid points as there are atoms
HostPoints == {<<x, 0, 0>> : x \in 0..(Len(Topology) - 1)}

\* where the simulation starts: atom k at x = k - 1
StartPositions == [k \in 1..Len(Topology) |-> <<k - 1, 0, 0>>]

\* the edge length of the host's periodic box
BoxEdge == CHOOSE a \in CellEdges : \A b \in CellEdges : a <= b

\* periodic box vectors in OpenMM's reduced form: rectangular, or sheared in xy
Boxes == { DiagCell(BoxEdge, BoxEdge, BoxEdge),
           << <<BoxEdge, 0, 0>>, <<1, BoxEdge, 0>>, <<0, 0, BoxEdge>> >> }

BoxArgs == {NoneOpt} \cup {Some(b) : b \in Boxes}

\* what one timestep of the host can make of the previous call's arguments:
\* the same again, one atom moved by one grid step, or another box
NextArgs(c) ==
    IF c.status = "none"
    THEN {[status |-> "called", positions |-> StartPositions, boxvectors |-> b] :
              b \in BoxArgs}
    ELSE {c}
      \cup UNION {{[c EXCEPT !.positions[a] = p] :
                      p \in {q \in HostPoints : q[1] - c.positions[a][1] \in {-1, 1}}} :
                   a \in 1..Len(Topology)}
      \cup {[c EXCEPT !.boxvectors = b] : b \in BoxArgs}

Init ==
    /\ nl_in = Idle
    /\ nl_out = Idle
    /\ ctor \in CtorArgs
    /\ self = Construct(ctor)
    /\ call = Idle
    /\ rec = Idle
    /\ ret = Idle
    /\ first = Idle

\* the history of the first call, and whether other arguments came after it
FirstAfter(c, r) ==
    IF first.status = "none"
    THEN [status |-> "seen", call |-> c, rec |-> r.rec, ret |-> r.ret, others |-> FALSE]
    ELSE [first EXCEPT !.others = @ \/ c # first.call]

\* a plausible slip: forward records on the module whether a box was passed
ForwardSetsPbc(positions, boxvectors) ==
    \E r \in {ForwardResult(self, positions, boxvectors)} :
    LET c == [status |-> "called", positions |-> positions, boxvectors |-> boxvectors]
    IN  /\ call' = c
        /\ rec' = r.rec
        /\ ret' = r.ret
        /\ first' = FirstAfter(c, r)
        /\ self' = [self EXCEPT !.pbc = PbcFlags(~boxvectors.isNone)]
        /\ UNCHANGED <<nl_in, nl_out, ctor>>

\* one per-step evaluation
Forward(positions, boxvectors) ==
    \E r \in {ForwardResult(self, positions, boxvectors)} :
    LET c == [status |-> "called", positions |-> positions, boxvectors |-> boxvectors]
    IN  /\ call' = c
        /\ rec' = r.rec
        /\ ret' = r.ret
        /\ first' = FirstAfter(c, r)
        /\ UNCHANGED <<nl_in, nl_out, ctor, self>>

Step == \E a \in NextArgs(call) : Forward(a.positions, a.boxvectors)

Next == Step

Spec == Init /\ [][Next]_vars

----------------------------------------------------------------------------
(* Properties of _simple_nl, checked under SpecNL *)

NlAtoms == 0..(Len(nl_in.positions) - 1)

Neg(s) == <<-s[1], -s[2], -s[3]>>

Abs(x) == IF x < 0 THEN -x ELSE x

\* raw displacement positions[a] - positions[b] of a direct call
RawDelta(a, b) ==
    LET p == nl_in.positions[a + 1]
        q == nl_in.positions[b + 1]
    IN  <<p[1] - q[1], p[2] - q[2], p[3] - q[3]>>

MinOf(S) == CHOOSE m \in S : \A x \in S : m <= x

\* squared minimum-image distance of atoms a and b in the (diagonal) cell:
\* per axis the least (d - k * edge)^2 over the images k
MinImageDist2(a, b) ==
    LET d == RawDelta(a, b)
        axis(c) ==
            IF nl_in.pbc[1]
            THEN MinOf({(d[c] - k * nl_in.cell[c][c]) * (d[c] - k * nl_in.cell[c][c]) :
                           k \in (-MaxCoord)..MaxCoord})
            ELSE d[c] * d[c]
    IN  axis(1) + axis(2) + axis(3)

\* the places of the directed edge (a, b) in the returned list
EdgeSlots(a, b) ==
    {k \in 1..Len(nl_out.neighbors) : nl_out.neighbors[k] = <<a, b>>}

\* C1: with self-interaction off, every pair of distinct atoms whose
\* minimum-image distance is <= cutoff is returned as the directed edge (i,j)
\* exactly once and as (j,i) exactly once, the two shifts being exact
\* negatives; and the returned triples are closed under (i,j,s) -> (j,i,-s).
C1_BothDirectionsOnce ==
    (nl_out.status # "pending" /\ ~nl_in.self_interaction) =>
        /\ \A a \in NlAtoms : \A b \in NlAtoms :
              (a # b /\ MinImageDist2(a, b) <= nl_in.cutoff * nl_in.cutoff) =>
                  /\ nl_out.status = "ok"
                  /\ Cardinality(EdgeSlots(a, b)) = 1
                  /\ Cardinality(EdgeSlots(b, a)) = 1
                  /\ \A k \in EdgeSlots(a, b) : \A m \in EdgeSlots(b, a) :
                        nl_out.shifts[m] = Neg(nl_out.shifts[k])
        /\ nl_out.status = "ok" =>
              /\ Len(nl_out.shifts) = Len(nl_out.neighbors)
              /\ \A k \in 1..Len(nl_out.neighbors) :
                    \E m \in 1..Len(nl_out.neighbors) :
                        /\ nl_out.neighbors[m] =
                               <<nl_out.neighbors[k][2], nl_out.neighbors[k][1]>>
                        /\ nl_out.shifts[m] = Neg(nl_out.shifts[k])

\* a periodic call returned a pair of edges that reach across the cell boundary
C1_Witness ==
    /\ nl_out.status = "ok"
    /\ ~nl_in.self_interaction
    /\ nl_in.pbc[1]
    /\ \E k \in 1..Len(nl_out.neighbors) : \E m \in 1..Len(nl_out.neighbors) :
          /\ nl_out.neighbors[k] = <<0, 1>>
          /\ nl_out.neighbors[m] = <<1, 0>>
          /\ nl_out.shifts[k] # <<0, 0, 0>>

\* C2: every returned edge (i,j) with shift s has
\* norm(pos[i] - pos[j] - s.cell) <= cutoff; in a periodic call s is per axis
\* a nearest integer to displacement / cell length, in a non-periodic call s
\* is the zero vector.
C2_WithinCutoff ==
    nl_out.status = "ok" =>
        \A k \in 1..Len(nl_out.neighbors) :
            LET fd == RawDelta(nl_out.neighbors[k][1], nl_out.neighbors[k][2])
                sh == nl_out.shifts[k]
                t == ShiftVec(sh, nl_in.cell)
            IN  /\ Norm2(<<fd[1] - t[1], fd[2] - t[2], fd[3] - t[3]>>)
                       <= nl_in.cutoff * nl_in.cutoff
                /\ nl_in.pbc[1] =>
                       \A c \in 1..3 :
                           2 * Abs(fd[c] - sh[c] * nl_in.cell[c][c]) <= nl_in.cell[c][c]
                /\ ~nl_in.pbc[1] => sh = <<0, 0, 0>>

\* two atoms further apart than the cutoff along z, joined through the
\* periodic image: the edge has z shift 1 and wrapped distance 1 <= cutoff,
\* with the cutoff below half the cell
C2_Witness ==
    /\ nl_out.status = "ok"
    /\ nl_in.pbc[1]
    /\ \A c \in 1..3 : 2 * nl_in.cutoff < nl_in.cell[c][c]
    /\ \E k \in 1..Len(nl_out.neighbors) :
          /\ nl_out.shifts[k] = <<0, 0, 1>>
          /\ Abs(RawDelta(nl_out.neighbors[k][1], nl_out.neighbors[k][2])[3]) = 2

SelfSlots ==
    {k \in 1..Len(nl_out.neighbors) :
        nl_out.neighbors[k][1] = nl_out.neighbors[k][2]}

\* C4 as stated: no edge with i = j when self_interaction is off; when it is
\* on, every returned edge with i = j has a nonzero shift.
C4_SelfEdgesNonzeroShift ==
    nl_out.status = "ok" =>
        /\ ~nl_in.self_interaction => SelfSlots = {}
        /\ nl_in.self_interaction =>
               \A k \in SelfSlots : nl_out.shifts[k] # <<0, 0, 0>>

\* C4 as the code has it: no edge with i = j when self_interaction is off;
\* when it is on (cutoff >= 0), every atom is returned once as its own
\* neighbor and every returned edge with i = j has the zero shift.
C4_SelfEdgesZeroShift ==
    nl_out.status = "ok" =>
        /\ ~nl_in.self_interaction => SelfSlots = {}
        /\ nl_in.self_interaction =>
               /\ \A k \in SelfSlots : nl_out.shifts[k] = <<0, 0, 0>>
               /\ \A a \in NlAtoms : Cardinality(EdgeSlots(a, a)) = 1

\* a periodic call with self_interaction on returned a self pair
C4_Witness ==
    /\ nl_out.status = "ok"
    /\ nl_in.self_interaction
    /\ nl_in.pbc[1]
    /\ Len(nl_in.positions) = 2
    /\ SelfSlots # {}

\* C5: for zero atoms and for a single atom (self-interaction off) the call
\* completes normally and returns an empty edge list and an empty shift list.
C5_FewAtomsEmpty ==
    (nl_out.status # "pending" /\ ~nl_in.self_interaction
        /\ Len(nl_in.positions) <= 1) =>
        /\ nl_out.status = "ok"
        /\ nl_out.neighbors = <<>>
        /\ nl_out.shifts = <<>>

----------------------------------------------------------------------------
(* Properties of the adapter, checked under Spec *)

IsDiagonal(cell) == \A r \in 1..3 : \A c \in 1..3 : r # c => cell[r][c] = 0

\* the host's box in model length units
ScaledBox == [r \in 1..3 |-> Scale(call.boxvectors.val[r], ctor.units.nm_to_distance)]

\* C3: with periodicity on and cutoff >= half the minimum cell edge (exactly
\* half included), the evaluation fails and no edge list is returned.
C3_LargeCutoffFails ==
    (/\ call.status = "called"
     /\ ctor.periodic
     /\ ~call.boxvectors.isNone
     /\ IsDiagonal(call.boxvectors.val)
     /\ \E c \in 1..3 : 2 * ctor.r_max >= ScaledBox[c][c]) =>
        (ret.status = "error" /\ rec.status = "error")

\* C6: with periodicity on and a cell with a nonzero off-diagonal entry, the
\* evaluation fails instead of returning edges computed from the diagonal.
C6_NonOrthogonalFails ==
    (/\ call.status = "called"
     /\ ctor.periodic
     /\ ~call.boxvectors.isNone
     /\ ~IsDiagonal(call.boxvectors.val)) =>
        (ret.status = "error" /\ rec.status = "error")

\* the configured subset as a sequence of topology indices (all atoms in
\* host order when no subset is configured)
SubsetOrder ==
    IF ctor.atoms.isNone THEN [k \in 1..Len(Topology) |-> k - 1] ELSE ctor.atoms.val

\* C7: position k of the record is host position indices[k] in model length
\* units, the neighbor list is built from exactly those positions, and the
\* returned forces have one row per subset atom, row k being the model's
\* force on record atom k in host units.
C7_SubsetOrder ==
    rec.status = "ok" =>
        /\ Len(rec.pos) = Len(SubsetOrder)
        /\ \A k \in 1..Len(SubsetOrder) :
              rec.pos[k] = Scale(call.positions[SubsetOrder[k] + 1],
                                 ctor.units.nm_to_distance)
        /\ \A e \in 1..Len(rec.edge_index) :
              LET a == rec.pos[rec.edge_index[e][1] + 1]
                  b == rec.pos[rec.edge_index[e][2] + 1]
                  t == IF rec.pbc[1]
                       THEN <<rec.edge_cell_shift[e][1] * rec.cell[1][1],
                              rec.edge_cell_shift[e][2] * rec.cell[2][2],
                              rec.edge_cell_shift[e][3] * rec.cell[3][3]>>
                       ELSE <<0, 0, 0>>
              IN  Norm2(<<a[1] - b[1] - t[1], a[2] - b[2] - t[2], a[3] - b[3] - t[3]>>)
                      <= ctor.r_max * ctor.r_max
        /\ ret.status = "ok"
        /\ Len(ret.forces) = Len(SubsetOrder)
        /\ \A k \in 1..Len(SubsetOrder) :
              ret.forces[k] = Scale(ExternalModel(rec).forces[k],
                                    ctor.units.energy_to_kJ * ctor.units.nm_to_distance)

\* a subset in descending index order, its atoms at different places, with a
\* nonzero force returned
C7_Witness ==
    /\ rec.status = "ok"
    /\ ~ctor.atoms.isNone
    /\ Len(ctor.atoms.val) = 2
    /\ ctor.atoms.val[1] > ctor.atoms.val[2]
    /\ call.positions[ctor.atoms.val[1] + 1] # call.positions[ctor.atoms.val[2] + 1]
    /\ ctor.units.nm_to_distance # 1
    /\ ret.forces[1] # <<0, 0, 0>>

\* C8 as stated: in every evaluation of an adapter built non-periodic the
\* record's cell is the identity, whether or not box vectors are passed, and
\* the record's periodicity flags are those fixed at construction.
C8_NonPeriodicIdentityCell ==
    (rec.status = "ok" /\ ~ctor.periodic) =>
        /\ rec.cell = DiagCell(1, 1, 1)
        /\ rec.pbc = <<FALSE, FALSE, FALSE>>

\* C8 as the code has it: the record's cell is the identity when no box
\* vectors are passed, and the passed box in model length units otherwise;
\* the flags are those fixed at construction.
C8_IdentityCellWithoutBox ==
    (rec.status = "ok" /\ ~ctor.periodic) =>
        /\ call.boxvectors.isNone => rec.cell = DiagCell(1, 1, 1)
        /\ ~call.boxvectors.isNone => rec.cell = ScaledBox
        /\ rec.pbc = <<FALSE, FALSE, FALSE>>

\* a non-periodic adapter whose length unit differs from the host's was
\* evaluated without box vectors
C8_Witness ==
    /\ rec.status = "ok"
    /\ ~ctor.periodic
    /\ call.boxvectors.isNone
    /\ ctor.units.nm_to_distance # 1

\* C9: no evaluation changes the adapter's cutoff, species indices, atomic
\* numbers, periodicity flags or subset indices, and an evaluation whose
\* arguments equal those of the first evaluation returns the first
\* evaluation's edges and shifts, whatever was evaluated in between.
C9_CallsIndependent ==
    [][ /\ self' = self
        /\ (first'.status = "seen" /\ call' = first'.call) =>
               /\ rec'.status = first'.rec.status
               /\ rec'.status = "ok" =>
                      /\ rec'.edge_index = first'.rec.edge_index
                      /\ rec'.edge_cell_shift = first'.rec.edge_cell_shift ]_vars

\* the first evaluation's arguments came again after other arguments, on a
\* periodic adapter that was passed a box and found edges
C9_Witness ==
    /\ first.status = "seen"
    /\ first.others
    /\ call = first.call
    /\ ctor.periodic
    /\ ~call.boxvectors.isNone
    /\ rec.status = "ok"
    /\ rec.edge_index # <<>>

\* C10: in every record the species-index, atomic-number and position arrays
\* have the same length N, and every edge index is in 0..N-1.
C10_ArrayLengthsAgree ==
    rec.status = "ok" =>
        /\ Len(rec.atom_types) = Len(rec.pos)
        /\ Len(rec.atomic_numbers) = Len(rec.pos)
        /\ \A e \in 1..Len(rec.edge_index) :
              /\ rec.edge_index[e][1] \in 0..(Len(rec.pos) - 1)
              /\ rec.edge_index[e][2] \in 0..(Len(rec.pos) - 1)

====
